---- MODULE Spec2Model ----
(***************************************************************************)
(* Model of pelicanconf.py, the settings module of the v1k45 site.         *)
(*                                                                         *)
(* The module is a sequence of top-level assignments.  Loading it executes *)
(* the statements in file order and leaves a mapping from option names to  *)
(* values.  A build invocation loads the module, then generates outputs    *)
(* whose URL and file path are obtained by expanding the *_URL / *_SAVE_AS *)
(* templates of the mapping.                                               *)
(*                                                                         *)
(* Strings are sequences of one-character strings, so that prefixes,       *)
(* suffixes and placeholders are computed rather than assumed.  An option  *)
(* name is the sequence of its underscore-separated words:                 *)
(* PAGE_SAVE_AS is <<"PAGE", "SAVE", "AS">> and SITEURL is <<"SITEURL">>.   *)
(***************************************************************************)
EXTENDS Integers, Sequences, FiniteSets, TLC

VARIABLES
    pc,          \* "load" while the module body executes, "build" afterwards
    ip,          \* index in Statements of the next statement to execute
    settings,    \* the module namespace: option name -> value
    env,         \* ambient state of the process (environment, cwd, clock)
    prev,        \* what the previous invocation had loaded, and its env
    invocation,  \* number of the current build invocation
    cur          \* the output generated last in this invocation

vars == <<pc, ip, settings, env, prev, invocation, cur>>

----------------------------------------------------------------------------
(* Bounds *)

MaxInvocations == 2

MaxSlugParts == 1

----------------------------------------------------------------------------
(* Python values *)

Str(s) == [type |-> "str", str |-> s]

None == [type |-> "NoneType"]

Bool(b) == [type |-> "bool", bool |-> b]

List(xs) == [type |-> "list", items |-> xs]

Tuple(xs) == [type |-> "tuple", items |-> xs]

----------------------------------------------------------------------------
(* The assignments of pelicanconf.py *)

\* AUTHOR = 'Vikas Yadav'
AUTHOR ==
    Str(<<"V", "i", "k", "a", "s", " ", "Y", "a", "d", "a", "v">>)

\* SITENAME = "v1k45"
SITENAME ==
    Str(<<"v", "1", "k", "4", "5">>)

\* a trailing blank left in the address
SITEURL_blank ==
    Str(<<"h", "t", "t", "p", "s", ":", "/", "/", "v", "1", "k", "4", "5", ".", "g", "i", "t", "h", "u", "b", ".", "i", "o", " ">>)

\* the address taken from the environment of the process
SITEURL_env ==
    IF env = "publish"
    THEN Str(<<"h", "t", "t", "p", "s", ":", "/", "/", "v", "1", "k", "4", "5", ".", "g", "i", "t", "h", "u", "b", ".", "i", "o">>)
    ELSE Str(<<>>)

\* SITEURL = ''
SITEURL ==
    Str(<<>>)

\* PATH = 'content'
PATH ==
    Str(<<"c", "o", "n", "t", "e", "n", "t">>)

\* TIMEZONE = 'Asia/Kolkata'
TIMEZONE ==
    Str(<<"A", "s", "i", "a", "/", "K", "o", "l", "k", "a", "t", "a">>)

\* DEFAULT_LANG = 'en'
DEFAULT_LANG ==
    Str(<<"e", "n">>)

\* STATIC_PATHS = ['pdfs', 'images']
STATIC_PATHS ==
    List(<<Str(<<"p", "d", "f", "s">>), Str(<<"i", "m", "a", "g", "e", "s">>)>>)

\* INDEX_SAVE_AS = 'blog/index.html'
INDEX_SAVE_AS ==
    Str(<<"b", "l", "o", "g", "/", "i", "n", "d", "e", "x", ".", "h", "t", "m", "l">>)

\* pages moved under a directory of their own
PAGE_URL_pages ==
    Str(<<"p", "a", "g", "e", "s", "/", "{", "s", "l", "u", "g", "}", "/">>)

\* PAGE_URL = '{slug}/'
PAGE_URL ==
    Str(<<"{", "s", "l", "u", "g", "}", "/">>)

\* a save path that names a field its URL does not have
PAGE_SAVE_AS_lang ==
    Str(<<"{", "s", "l", "u", "g", "}", "/", "{", "l", "a", "n", "g", "}", "/", "i", "n", "d", "e", "x", ".", "h", "t", "m", "l">>)

\* PAGE_SAVE_AS = '{slug}/index.html'
PAGE_SAVE_AS ==
    Str(<<"{", "s", "l", "u", "g", "}", "/", "i", "n", "d", "e", "x", ".", "h", "t", "m", "l">>)

\* articles served from the site root
ARTICLE_URL_root ==
    Str(<<"{", "s", "l", "u", "g", "}", "/">>)

\* ARTICLE_URL = 'blog/{slug}/'
ARTICLE_URL ==
    Str(<<"b", "l", "o", "g", "/", "{", "s", "l", "u", "g", "}", "/">>)

\* articles written next to the pages
ARTICLE_SAVE_AS_root ==
    Str(<<"{", "s", "l", "u", "g", "}", "/", "i", "n", "d", "e", "x", ".", "h", "t", "m", "l">>)

\* ARTICLE_SAVE_AS = 'blog/{slug}/index.html'
ARTICLE_SAVE_AS ==
    Str(<<"b", "l", "o", "g", "/", "{", "s", "l", "u", "g", "}", "/", "i", "n", "d", "e", "x", ".", "h", "t", "m", "l">>)

\* AUTHOR_URL = 'blog/authors/{slug}/'
AUTHOR_URL ==
    Str(<<"b", "l", "o", "g", "/", "a", "u", "t", "h", "o", "r", "s", "/", "{", "s", "l", "u", "g", "}", "/">>)

\* AUTHOR_SAVE_AS = 'blog/authors/{slug}/index.html'
AUTHOR_SAVE_AS ==
    Str(<<"b", "l", "o", "g", "/", "a", "u", "t", "h", "o", "r", "s", "/", "{", "s", "l", "u", "g", "}", "/", "i", "n", "d", "e", "x", ".", "h", "t", "m", "l">>)

\* AUTHORS_URL = 'blog/authors/'
AUTHORS_URL ==
    Str(<<"b", "l", "o", "g", "/", "a", "u", "t", "h", "o", "r", "s", "/">>)

\* AUTHORS_SAVE_AS = 'blog/authors/index.html'
AUTHORS_SAVE_AS ==
    Str(<<"b", "l", "o", "g", "/", "a", "u", "t", "h", "o", "r", "s", "/", "i", "n", "d", "e", "x", ".", "h", "t", "m", "l">>)

\* CATEGORY_URL = 'blog/categories/{slug}/'
CATEGORY_URL ==
    Str(<<"b", "l", "o", "g", "/", "c", "a", "t", "e", "g", "o", "r", "i", "e", "s", "/", "{", "s", "l", "u", "g", "}", "/">>)

\* CATEGORY_SAVE_AS = 'blog/categories/{slug}/index.html'
CATEGORY_SAVE_AS ==
    Str(<<"b", "l", "o", "g", "/", "c", "a", "t", "e", "g", "o", "r", "i", "e", "s", "/", "{", "s", "l", "u", "g", "}", "/", "i", "n", "d", "e", "x", ".", "h", "t", "m", "l">>)

\* CATEGORIES_URL = 'blog/categories/'
CATEGORIES_URL ==
    Str(<<"b", "l", "o", "g", "/", "c", "a", "t", "e", "g", "o", "r", "i", "e", "s", "/">>)

\* CATEGORIES_SAVE_AS = 'blog/categories/index.html'
CATEGORIES_SAVE_AS ==
    Str(<<"b", "l", "o", "g", "/", "c", "a", "t", "e", "g", "o", "r", "i", "e", "s", "/", "i", "n", "d", "e", "x", ".", "h", "t", "m", "l">>)

\* TAG_URL = 'blog/tags/{slug}/'
TAG_URL ==
    Str(<<"b", "l", "o", "g", "/", "t", "a", "g", "s", "/", "{", "s", "l", "u", "g", "}", "/">>)

\* TAG_SAVE_AS = 'blog/tags/{slug}/index.html'
TAG_SAVE_AS ==
    Str(<<"b", "l", "o", "g", "/", "t", "a", "g", "s", "/", "{", "s", "l", "u", "g", "}", "/", "i", "n", "d", "e", "x", ".", "h", "t", "m", "l">>)

\* TAGS_URL = 'blog/tags/'
TAGS_URL ==
    Str(<<"b", "l", "o", "g", "/", "t", "a", "g", "s", "/">>)

\* the listing written as a file of its own name
TAGS_SAVE_AS_flat ==
    Str(<<"b", "l", "o", "g", "/", "t", "a", "g", "s", ".", "h", "t", "m", "l">>)

\* TAGS_SAVE_AS = 'blog/tags/index.html'
TAGS_SAVE_AS ==
    Str(<<"b", "l", "o", "g", "/", "t", "a", "g", "s", "/", "i", "n", "d", "e", "x", ".", "h", "t", "m", "l">>)

\* the feed left switched on
FEED_ALL_ATOM_on ==
    Str(<<"f", "e", "e", "d", "s", "/", "a", "l", "l", ".", "a", "t", "o", "m", ".", "x", "m", "l">>)

\* FEED_ALL_ATOM = None
FEED_ALL_ATOM ==
    None

\* CATEGORY_FEED_ATOM = None
CATEGORY_FEED_ATOM ==
    None

\* TRANSLATION_FEED_ATOM = None
TRANSLATION_FEED_ATOM ==
    None

\* AUTHOR_FEED_ATOM = None
AUTHOR_FEED_ATOM ==
    None

\* AUTHOR_FEED_RSS = None
AUTHOR_FEED_RSS ==
    None

\* THEME = 'sakura'
THEME ==
    Str(<<"s", "a", "k", "u", "r", "a">>)

\* a comma dropped inside the first pair: the two literals concatenate
LINKS_comma ==
    Tuple(<<Tuple(<<Str(<<"b", "l", "o", "g", "/", "b", "l", "o", "g", "/">>)>>),
            Tuple(<<Str(<<"g", "i", "t", "h", "u", "b">>), Str(<<"h", "t", "t", "p", "s", ":", "/", "/", "g", "i", "t", "h", "u", "b", ".", "c", "o", "m", "/", "v", "1", "k", "4", "5">>)>>),
            Tuple(<<Str(<<"s", "t", "a", "c", "k", "o", "v", "e", "r", "f", "l", "o", "w">>),
                    Str(<<"h", "t", "t", "p", ":", "/", "/", "s", "t", "a", "c", "k", "o", "v", "e", "r", "f", "l", "o", "w", ".", "c", "o", "m", "/", "u", "s", "e", "r", "s", "/", "4", "7", "2", "6", "5", "9", "8", "/", "v", "1", "k", "4", "5">>)>>)>>)

\* LINKS = ((label, url), ...)
LINKS ==
    Tuple(<<Tuple(<<Str(<<"b", "l", "o", "g">>), Str(<<"/", "b", "l", "o", "g", "/">>)>>),
            Tuple(<<Str(<<"g", "i", "t", "h", "u", "b">>), Str(<<"h", "t", "t", "p", "s", ":", "/", "/", "g", "i", "t", "h", "u", "b", ".", "c", "o", "m", "/", "v", "1", "k", "4", "5">>)>>),
            Tuple(<<Str(<<"s", "t", "a", "c", "k", "o", "v", "e", "r", "f", "l", "o", "w">>),
                    Str(<<"h", "t", "t", "p", ":", "/", "/", "s", "t", "a", "c", "k", "o", "v", "e", "r", "f", "l", "o", "w", ".", "c", "o", "m", "/", "u", "s", "e", "r", "s", "/", "4", "7", "2", "6", "5", "9", "8", "/", "v", "1", "k", "4", "5">>)>>)>>)

\* DEFAULT_PAGINATION = False
DEFAULT_PAGINATION ==
    Bool(FALSE)

Statements ==
    << [kind |-> "import", name |-> <<"unicode", "literals">>, value |-> None],
       [kind |-> "assign", name |-> <<"AUTHOR">>, value |-> AUTHOR],
       [kind |-> "assign", name |-> <<"SITENAME">>, value |-> SITENAME],
       [kind |-> "assign", name |-> <<"SITEURL">>, value |-> SITEURL],
       [kind |-> "assign", name |-> <<"PATH">>, value |-> PATH],
       [kind |-> "assign", name |-> <<"TIMEZONE">>, value |-> TIMEZONE],
       [kind |-> "assign", name |-> <<"DEFAULT", "LANG">>, value |-> DEFAULT_LANG],
       [kind |-> "assign", name |-> <<"STATIC", "PATHS">>, value |-> STATIC_PATHS],
       [kind |-> "assign", name |-> <<"INDEX", "SAVE", "AS">>, value |-> INDEX_SAVE_AS],
       [kind |-> "assign", name |-> <<"PAGE", "URL">>, value |-> PAGE_URL],
       [kind |-> "assign", name |-> <<"PAGE", "SAVE", "AS">>, value |-> PAGE_SAVE_AS],
       [kind |-> "assign", name |-> <<"ARTICLE", "URL">>, value |-> ARTICLE_URL],
       [kind |-> "assign", name |-> <<"ARTICLE", "SAVE", "AS">>, value |-> ARTICLE_SAVE_AS],
       [kind |-> "assign", name |-> <<"AUTHOR", "URL">>, value |-> AUTHOR_URL],
       [kind |-> "assign", name |-> <<"AUTHOR", "SAVE", "AS">>, value |-> AUTHOR_SAVE_AS],
       [kind |-> "assign", name |-> <<"AUTHORS", "URL">>, value |-> AUTHORS_URL],
       [kind |-> "assign", name |-> <<"AUTHORS", "SAVE", "AS">>, value |-> AUTHORS_SAVE_AS],
       [kind |-> "assign", name |-> <<"CATEGORY", "URL">>, value |-> CATEGORY_URL],
       [kind |-> "assign", name |-> <<"CATEGORY", "SAVE", "AS">>, value |-> CATEGORY_SAVE_AS],
       [kind |-> "assign", name |-> <<"CATEGORIES", "URL">>, value |-> CATEGORIES_URL],
       [kind |-> "assign", name |-> <<"CATEGORIES", "SAVE", "AS">>, value |-> CATEGORIES_SAVE_AS],
       [kind |-> "assign", name |-> <<"TAG", "URL">>, value |-> TAG_URL],
       [kind |-> "assign", name |-> <<"TAG", "SAVE", "AS">>, value |-> TAG_SAVE_AS],
       [kind |-> "assign", name |-> <<"TAGS", "URL">>, value |-> TAGS_URL],
       [kind |-> "assign", name |-> <<"TAGS", "SAVE", "AS">>, value |-> TAGS_SAVE_AS],
       [kind |-> "assign", name |-> <<"FEED", "ALL", "ATOM">>, value |-> FEED_ALL_ATOM],
       [kind |-> "assign", name |-> <<"CATEGORY", "FEED", "ATOM">>, value |-> CATEGORY_FEED_ATOM],
       [kind |-> "assign", name |-> <<"TRANSLATION", "FEED", "ATOM">>, value |-> TRANSLATION_FEED_ATOM],
       [kind |-> "assign", name |-> <<"AUTHOR", "FEED", "ATOM">>, value |-> AUTHOR_FEED_ATOM],
       [kind |-> "assign", name |-> <<"AUTHOR", "FEED", "RSS">>, value |-> AUTHOR_FEED_RSS],
       [kind |-> "assign", name |-> <<"THEME">>, value |-> THEME],
       [kind |-> "assign", name |-> <<"LINKS">>, value |-> LINKS],
       [kind |-> "assign", name |-> <<"DEFAULT", "PAGINATION">>, value |-> DEFAULT_PAGINATION] >>

----------------------------------------------------------------------------
(* Template expansion: str.format as the generator applies it to a         *)
(* template, with the metadata of the content as keyword arguments.        *)

Ok(s) == [err |-> FALSE, str |-> s]

\* the expansion raised (KeyError for an unknown field, ValueError for an
\* unbalanced brace, or the option is not in the mapping)
Err == [err |-> TRUE, str |-> <<>>]

Cat(s, r) == IF r.err THEN Err ELSE Ok(s \o r.str)

RECURSIVE IndexOf(_, _, _)
\* least j >= i with s[j] = c, or 0
IndexOf(s, c, i) ==
    IF i > Len(s) THEN 0
    ELSE IF s[i] = c THEN i
    ELSE IndexOf(s, c, i + 1)

RECURSIVE Format(_, _)
Format(t, kw) ==
    IF t = <<>> THEN Ok(<<>>)
    ELSE IF Head(t) = "{" THEN
        IF Len(t) >= 2 /\ t[2] = "{"
        THEN Cat(<<"{">>, Format(SubSeq(t, 3, Len(t)), kw))
        ELSE LET close == IndexOf(t, "}", 2)
                 field == SubSeq(t, 2, close - 1)
             IN  IF close = 0 THEN Err
                 ELSE IF field \notin DOMAIN kw THEN Err
                 ELSE Cat(kw[field], Format(SubSeq(t, close + 1, Len(t)), kw))
    ELSE IF Head(t) = "}" THEN
        IF Len(t) >= 2 /\ t[2] = "}"
        THEN Cat(<<"}">>, Format(SubSeq(t, 3, Len(t)), kw))
        ELSE Err
    ELSE Cat(<<Head(t)>>, Format(Tail(t), kw))

RECURSIVE Placeholders(_)
\* the replacement fields of a template, as str.format parses them
Placeholders(t) ==
    IF t = <<>> THEN {}
    ELSE IF Head(t) \in {"{", "}"} /\ Len(t) >= 2 /\ t[2] = Head(t)
    THEN Placeholders(SubSeq(t, 3, Len(t)))
    ELSE IF Head(t) = "{" THEN
        LET close == IndexOf(t, "}", 2)
        IN  IF close = 0 THEN {}
            ELSE {SubSeq(t, 2, close - 1)}
                     \cup Placeholders(SubSeq(t, close + 1, Len(t)))
    ELSE Placeholders(Tail(t))

----------------------------------------------------------------------------
(* Loading the module *)

NoSettings == [n \in {} |-> None]

\* one top-level statement executed in the namespace ns
ExecStatement(st, ns) ==
    IF st.kind = "assign"
    THEN [n \in DOMAIN ns \cup {st.name} |->
              IF n = st.name THEN st.value ELSE ns[n]]
    ELSE ns

Loaded == pc = "build"

----------------------------------------------------------------------------
(* Outputs of a build *)

SLUG == <<"s", "l", "u", "g">>

about == <<"a", "b", "o", "u", "t">>

blog == <<"b", "l", "o", "g">>

authors == <<"a", "u", "t", "h", "o", "r", "s">>

categories == <<"c", "a", "t", "e", "g", "o", "r", "i", "e", "s">>

tags == <<"t", "a", "g", "s">>

slash == <<"/">>

authors_about == authors \o slash \o about

SlugPieces == {about, blog, authors, categories, tags, authors_about}

RECURSIVE SlugsOfParts(_)
SlugsOfParts(k) ==
    IF k = 0 THEN {<<>>}
    ELSE {p \o s : p \in SlugPieces, s \in SlugsOfParts(k - 1)}

Slugs == UNION {SlugsOfParts(k) : k \in 0..MaxSlugParts}

\* content with a slug of its own
ContentTypes == {"PAGE", "ARTICLE", "AUTHOR", "CATEGORY", "TAG"}

\* the index and the listings, one output each
DirectTemplates == {"INDEX", "AUTHORS", "CATEGORIES", "TAGS"}

Items ==
    [type : ContentTypes, slug : Slugs]
        \cup [type : DirectTemplates, slug : {<<>>}]

UrlFormat(item) ==
    IF item.type \in ContentTypes
    THEN [f \in {SLUG} |-> item.slug]
    ELSE [f \in {} |-> <<>>]

\* the template stored under name, expanded for item
Resolve(ns, name, item) ==
    IF name \notin DOMAIN ns THEN Err
    ELSE IF ns[name].type # "str" THEN Err
    ELSE Format(ns[name].str, UrlFormat(item))

\* the address a theme links to: SITEURL, a slash, the url of the content
Location(ns, url) ==
    IF url.err THEN Err ELSE Ok(ns[<<"SITEURL">>].str \o <<"/">> \o url.str)

Output(ns, item) ==
    LET url == Resolve(ns, <<item.type, "URL">>, item)
    IN  [type     |-> item.type,
         slug     |-> item.slug,
         url      |-> url,
         save_as  |-> Resolve(ns, <<item.type, "SAVE", "AS">>, item),
         location |-> Location(ns, url)]

NoOutput ==
    [type |-> "none", slug |-> <<>>, url |-> Err, save_as |-> Err,
     location |-> Err]

----------------------------------------------------------------------------
(* The state machine *)

Env == {"develop", "publish"}

Init ==
    /\ pc = "load"
    /\ ip = 1
    /\ settings = NoSettings
    /\ env \in Env
    /\ prev = [settings |-> NoSettings, env |-> "none"]
    /\ invocation = 1
    /\ cur = NoOutput

\* the interpreter executes the next statement of the module body
LoadStep ==
    /\ pc = "load"
    /\ ip <= Len(Statements)
    /\ settings' = ExecStatement(Statements[ip], settings)
    /\ ip' = ip + 1
    /\ pc' = IF ip = Len(Statements) THEN "build" ELSE "load"
    /\ UNCHANGED <<env, prev, invocation, cur>>

\* a generator that rewrites the address while it writes an output
Generate_rewrites ==
    /\ pc = "build"
    /\ \E item \in Items : cur' = Output(settings, item)
    /\ settings' = [settings EXCEPT ![<<"SITEURL">>] = Str(<<"/">>)]
    /\ UNCHANGED <<pc, ip, env, prev, invocation>>

\* the generator writes one output, reading the loaded settings
Generate ==
    /\ pc = "build"
    /\ \E item \in Items : cur' = Output(settings, item)
    /\ UNCHANGED <<pc, ip, settings, env, prev, invocation>>

\* the process ends; the next invocation loads the module again
NextInvocation ==
    /\ pc = "build"
    /\ invocation < MaxInvocations
    /\ prev' = [settings |-> settings, env |-> env]
    /\ settings' = NoSettings
    /\ pc' = "load"
    /\ ip' = 1
    /\ invocation' = invocation + 1
    /\ cur' = NoOutput
    /\ env' \in Env

Next == LoadStep \/ Generate \/ NextInvocation

Spec == Init /\ [][Next]_vars

----------------------------------------------------------------------------
(* Properties of the loaded settings *)

StartsWith(s, p) == Len(s) >= Len(p) /\ SubSeq(s, 1, Len(p)) = p

EndsWith(s, p) ==
    Len(s) >= Len(p) /\ SubSeq(s, Len(s) - Len(p) + 1, Len(s)) = p

INDEX_HTML == <<"i", "n", "d", "e", "x", ".", "h", "t", "m", "l">>

\* the options whose name ends in _URL
UrlOptions(ns) == {n \in DOMAIN ns : n[Len(n)] = "URL"}

\* PAGE_URL -> PAGE_SAVE_AS
SaveAsName(n) == SubSeq(n, 1, Len(n) - 1) \o <<"SAVE", "AS">>

PermalinkTypes ==
    {"PAGE", "ARTICLE", "AUTHOR", "AUTHORS",
     "CATEGORY", "CATEGORIES", "TAG", "TAGS"}

\* C1: once the module is loaded, the options ending in _URL are those of
\* the eight permalink types, each has a _SAVE_AS option with the same
\* prefix, and every placeholder of the _SAVE_AS template is a placeholder
\* of the _URL template.
C1_SaveAsMatchesUrl ==
    Loaded =>
        /\ UrlOptions(settings) = {<<t, "URL">> : t \in PermalinkTypes}
        /\ \A n \in UrlOptions(settings) :
              /\ SaveAsName(n) \in DOMAIN settings
              /\ settings[n].type = "str"
              /\ settings[SaveAsName(n)].type = "str"
              /\ Placeholders(settings[SaveAsName(n)].str)
                     \subseteq Placeholders(settings[n].str)

C1_Witness ==
    /\ Loaded
    /\ <<"PAGE", "URL">> \in UrlOptions(settings)
    /\ Placeholders(settings[<<"PAGE", "SAVE", "AS">>].str) = {SLUG}
    /\ Placeholders(settings[<<"TAGS", "SAVE", "AS">>].str) = {}

\* C2: with PAGE_URL = '{slug}/' and PAGE_SAVE_AS = '{slug}/index.html' as
\* configured, a page with slug s has public URL '/' + s + '/' and output
\* file s + '/index.html'; the page 'about' has '/about/' and
\* 'about/index.html'.
C2_PageResolves ==
    (Loaded /\ cur.type = "PAGE") =>
        /\ settings[<<"PAGE", "URL">>] = Str(<<"{", "s", "l", "u", "g", "}", "/">>)
        /\ settings[<<"PAGE", "SAVE", "AS">>] = Str(<<"{", "s", "l", "u", "g", "}", "/", "i", "n", "d", "e", "x", ".", "h", "t", "m", "l">>)
        /\ ~cur.location.err
        /\ ~cur.save_as.err
        /\ cur.location.str = <<"/">> \o cur.slug \o <<"/">>
        /\ cur.save_as.str = cur.slug \o <<"/">> \o INDEX_HTML
        /\ cur.slug = about =>
              /\ cur.location.str = <<"/", "a", "b", "o", "u", "t", "/">>
              /\ cur.save_as.str = <<"a", "b", "o", "u", "t", "/", "i", "n", "d", "e", "x", ".", "h", "t", "m", "l">>

C2_Witness ==
    /\ Loaded
    /\ cur.type = "PAGE"
    /\ cur.slug = about
    /\ cur.location = Ok(<<"/", "a", "b", "o", "u", "t", "/">>)

BLOG_DIR == <<"b", "l", "o", "g", "/">>

SLUG_FIELD == <<"{", "s", "l", "u", "g", "}">>

\* the options that hold a template of the permalink scheme
TemplateNames(types) ==
    {<<t, "URL">> : t \in types} \cup {<<t, "SAVE", "AS">> : t \in types}

\* C3 as stated: every _URL and _SAVE_AS template, and INDEX_SAVE_AS,
\* begins with 'blog/', and every resolved URL and output path lies under
\* 'blog/'.
C3_AllUnderBlog ==
    Loaded =>
        /\ \A n \in TemplateNames(PermalinkTypes) \cup {<<"INDEX", "SAVE", "AS">>} :
              StartsWith(settings[n].str, BLOG_DIR)
        /\ cur.type # "none" =>
              /\ StartsWith(cur.save_as.str, BLOG_DIR)
              /\ cur.type # "INDEX" => StartsWith(cur.url.str, BLOG_DIR)

\* C3 amended: the templates of every type but the page, and INDEX_SAVE_AS,
\* begin with 'blog/', so every output that is not a page has its URL and
\* its path under 'blog/'; the page templates begin with the {slug}
\* placeholder, so a page lies under its own slug at the site root.
C3_AllButPagesUnderBlog ==
    Loaded =>
        /\ \A n \in TemplateNames(PermalinkTypes \ {"PAGE"})
                        \cup {<<"INDEX", "SAVE", "AS">>} :
              StartsWith(settings[n].str, BLOG_DIR)
        /\ \A n \in TemplateNames({"PAGE"}) :
              /\ StartsWith(settings[n].str, SLUG_FIELD \o <<"/">>)
              /\ ~StartsWith(settings[n].str, BLOG_DIR)
        /\ cur.type \notin {"none", "PAGE"} =>
              /\ ~cur.save_as.err
              /\ StartsWith(cur.save_as.str, BLOG_DIR)
              /\ cur.type # "INDEX" =>
                    ~cur.url.err /\ StartsWith(cur.url.str, BLOG_DIR)
        /\ cur.type = "PAGE" =>
              /\ StartsWith(cur.url.str, cur.slug \o <<"/">>)
              /\ StartsWith(cur.save_as.str, cur.slug \o <<"/">>)

C3_Witness ==
    /\ Loaded
    /\ cur.type = "ARTICLE"
    /\ cur.slug = about
    /\ StartsWith(cur.save_as.str, BLOG_DIR)

\* the feed options the module sets
FeedNames ==
    {<<"FEED", "ALL", "ATOM">>, <<"CATEGORY", "FEED", "ATOM">>,
     <<"TRANSLATION", "FEED", "ATOM">>, <<"AUTHOR", "FEED", "ATOM">>,
     <<"AUTHOR", "FEED", "RSS">>}

IsFeedOption(n) ==
    /\ \E i \in 1..Len(n) : n[i] = "FEED"
    /\ n[Len(n)] \in {"ATOM", "RSS"}

\* C8: once the module is loaded, FEED_ALL_ATOM, CATEGORY_FEED_ATOM,
\* TRANSLATION_FEED_ATOM, AUTHOR_FEED_ATOM and AUTHOR_FEED_RSS are present
\* and None, and no feed option (a name with the word FEED that ends in
\* ATOM or RSS) has another value.
C8_FeedsDisabled ==
    Loaded =>
        /\ \A n \in FeedNames :
              n \in DOMAIN settings /\ settings[n].type = "NoneType"
        /\ \A n \in DOMAIN settings :
              IsFeedOption(n) => settings[n].type = "NoneType"

C8_Witness ==
    /\ Loaded
    /\ {n \in DOMAIN settings : IsFeedOption(n)} = FeedNames
    /\ settings[<<"FEED", "ALL", "ATOM">>] = None

\* C9: for each of the eight pairs the _SAVE_AS template is the _URL
\* template followed by 'index.html', the _URL template ends with '/', and
\* no template begins with '/'; so the output file of every such output is
\* the index.html of the directory its URL names.
C9_SaveAsIsIndexOfUrl ==
    Loaded =>
        /\ \A t \in PermalinkTypes :
              /\ settings[<<t, "SAVE", "AS">>].str
                     = settings[<<t, "URL">>].str \o INDEX_HTML
              /\ EndsWith(settings[<<t, "URL">>].str, <<"/">>)
        /\ \A n \in TemplateNames(PermalinkTypes) \cup {<<"INDEX", "SAVE", "AS">>} :
              ~StartsWith(settings[n].str, <<"/">>)
        /\ cur.type \in PermalinkTypes =>
              /\ ~cur.url.err
              /\ ~cur.save_as.err
              /\ EndsWith(cur.url.str, <<"/">>)
              /\ cur.save_as.str = cur.url.str \o INDEX_HTML

C9_Witness ==
    /\ Loaded
    /\ cur.type = "TAG"
    /\ cur.slug = about
    /\ cur.save_as.str = cur.url.str \o INDEX_HTML

----------------------------------------------------------------------------
(* URL syntax: the URI-reference of RFC 3986 (a URI with a scheme, or a    *)
(* relative reference such as an absolute path), over its characters.      *)

Range(s) == {s[i] : i \in 1..Len(s)}

Lower == Range(<<"a", "b", "c", "d", "e", "f", "g", "h", "i", "j", "k", "l", "m", "n", "o", "p", "q", "r", "s", "t", "u", "v", "w", "x", "y", "z">>)

Upper == Range(<<"A", "B", "C", "D", "E", "F", "G", "H", "I", "J", "K", "L", "M", "N", "O", "P", "Q", "R", "S", "T", "U", "V", "W", "X", "Y", "Z">>)

Digit == Range(<<"0", "1", "2", "3", "4", "5", "6", "7", "8", "9">>)

HexDigit == Digit \cup Range(<<"a", "b", "c", "d", "e", "f", "A", "B", "C", "D", "E", "F">>)

\* unreserved, gen-delims, sub-delims and the percent sign
UrlChars == Lower \cup Upper \cup Digit \cup Range(<<"-", ".", "_", "~", ":", "/", "?", "#", "[", "]", "@", "!", "$", "&", "'", "(", ")", "*", "+", ",", ";", "=", "%">>)

\* scheme = ALPHA *( ALPHA / DIGIT / "+" / "-" / "." )
ValidScheme(s) ==
    /\ s # <<>>
    /\ s[1] \in Lower \cup Upper
    /\ Range(s) \subseteq Lower \cup Upper \cup Digit \cup {"+", "-", "."}

\* the part of s before the first '/', '?' or '#'
FirstSegment(s) ==
    LET stops == {i \in 1..Len(s) : s[i] \in {"/", "?", "#"}}
    IN  IF stops = {} THEN s
        ELSE SubSeq(s, 1, (CHOOSE i \in stops : \A j \in stops : i <= j) - 1)

ValidUrl(s) ==
    /\ Range(s) \subseteq UrlChars
    /\ \A i \in 1..Len(s) :
          s[i] = "%" =>
              i + 2 <= Len(s) /\ s[i + 1] \in HexDigit /\ s[i + 2] \in HexDigit
    /\ Cardinality({i \in 1..Len(s) : s[i] = "#"}) <= 1
    /\ LET first == FirstSegment(s)
           colon == IndexOf(first, ":", 1)
       IN  colon # 0 => ValidScheme(SubSeq(first, 1, colon - 1))

\* C4: every element of LINKS is a pair of strings, the label not empty
\* and the second a syntactically valid URL.
C4_LinksArePairs ==
    Loaded =>
        LET links == settings[<<"LINKS">>]
        IN  /\ links.type = "tuple"
            /\ \A i \in 1..Len(links.items) :
                  LET link == links.items[i]
                  IN  /\ link.type \in {"tuple", "list"}
                      /\ Len(link.items) = 2
                      /\ link.items[1].type = "str"
                      /\ link.items[2].type = "str"
                      /\ link.items[1].str # <<>>
                      /\ ValidUrl(link.items[2].str)

C4_Witness ==
    /\ Loaded
    /\ Len(settings[<<"LINKS">>].items) = 3
    /\ settings[<<"LINKS">>].items[1].items[2].str = <<"/", "b", "l", "o", "g", "/">>
    /\ ValidScheme(SubSeq(settings[<<"LINKS">>].items[2].items[2].str, 1, 5))

\* C7: SITEURL is the empty string or a syntactically valid URL.
C7_SiteUrlValid ==
    Loaded =>
        /\ settings[<<"SITEURL">>].type = "str"
        /\ \/ settings[<<"SITEURL">>].str = <<>>
           \/ ValidUrl(settings[<<"SITEURL">>].str)

C7_Witness ==
    /\ Loaded
    /\ settings[<<"SITEURL">>] = Str(<<>>)
    /\ cur.type = "PAGE"
    /\ StartsWith(cur.location.str, <<"/">>)

----------------------------------------------------------------------------
(* Properties of the lifecycle *)

\* C5: two loads of the module yield the same record: once a later
\* invocation has loaded the module, its mapping has the option names and
\* the values the previous invocation had loaded, whatever the ambient
\* state of either process.
C5_LoadIsIdempotent ==
    (Loaded /\ invocation > 1) =>
        /\ DOMAIN settings = DOMAIN prev.settings
        /\ \A n \in DOMAIN settings : settings[n] = prev.settings[n]

C5_Witness ==
    /\ Loaded
    /\ invocation > 1
    /\ prev.env # env
    /\ Cardinality(DOMAIN prev.settings) = Len(Statements) - 1

\* C6: after the load completes no step of the invocation changes, adds or
\* removes an option, and the next invocation starts from an empty
\* namespace that it fills by loading, not from the previous record.
C6_ImmutableAfterLoad ==
    /\ [][(Loaded /\ Loaded') => settings' = settings]_vars
    /\ [][(Loaded /\ ~Loaded') => (settings' = NoSettings /\ ip' = 1)]_vars
    /\ [][(~Loaded /\ Loaded') => ip' = Len(Statements) + 1]_vars

C6_Witness ==
    /\ Loaded
    /\ invocation > 1
    /\ cur.type # "none"
    /\ settings = prev.settings

\* the slugs and outputs C10 speaks of
Admissible(o) ==
    /\ o.type \in ContentTypes \cup DirectTemplates
    /\ o.type \in ContentTypes =>
          o.slug # <<>> /\ "/" \notin Range(o.slug)
    /\ o.type = "PAGE" => o.slug # blog
    /\ o.type = "ARTICLE" => o.slug \notin {authors, categories, tags}

\* C10: two distinct outputs with admissible slugs never have the same
\* output path, and two outputs of one content type have the same path
\* only if they have the same slug.  Stated of every two outputs that a
\* build generates one after the other.
C10_NoCollision ==
    [][(Loaded /\ Loaded' /\ cur.type # "none" /\ cur'.type # "none") =>
          /\ ( /\ Admissible(cur)
               /\ Admissible(cur')
               /\ <<cur.type, cur.slug>> # <<cur'.type, cur'.slug>> )
                => ( /\ ~cur.save_as.err
                     /\ ~cur'.save_as.err
                     /\ cur.save_as.str # cur'.save_as.str )
          /\ ( /\ cur.type = cur'.type
               /\ ~cur.save_as.err
               /\ cur.save_as = cur'.save_as )
                => cur.slug = cur'.slug]_vars

C10_Witness ==
    /\ Loaded
    /\ cur.type = "ARTICLE"
    /\ cur.slug = blog
    /\ Admissible(cur)
    /\ cur.save_as.str = BLOG_DIR \o blog \o <<"/">> \o INDEX_HTML

====
